---- MODULE Spec2Model ----
(***************************************************************************)
(* Side-graph reference engine (ga4gh/sidegraph.py).                       *)
(*                                                                         *)
(* The model follows SideGraph.getSubgraph: a recursive depth-first        *)
(* traversal over two accumulators (segments, joins).  The recursion is    *)
(* made explicit as a stack of frames, one frame per activation of the     *)
(* nested function _getSubgraph.  A frame is either at its entry (before   *)
(* line 166) or inside the for loop over foundJoins (lines 203-225).       *)
(*                                                                         *)
(* A behaviour is one baseline extraction followed by at most one further  *)
(* extraction from the same seed, so that two results can be compared.     *)
(*                                                                         *)
(* Spec and FairSpec are the traversal; QuerySpec applies getRefNames,     *)
(* getReference and getJoins to bounded stores; TwoSpec interleaves two    *)
(* calls of getSubgraph on one handle.  PageSpec, TermSpec and IdSpec      *)
(* model featureObjectGenerator and the feature id mangling of             *)
(* ga4gh/datamodel/sequenceAnnotations.py and OntologyTermSet of           *)
(* ga4gh/datamodel/ontologies.py.                                          *)
(***************************************************************************)
EXTENDS Integers, Sequences, FiniteSets

\* ---------------------------------------------------------------- bounds
MaxJoins == 3
MaxRadius == 4
MaxSeedPos == 5
MaxRows == 2
MaxStart == 2
MaxTwoJoins == 2
MaxTwoRadius == 2
MaxFeatures == 4
MaxPageSize == 3
MaxIdLen == 3
MaxTerms == 3

\* ------------------------------------------------------- topology store
None == <<>>
NoEnd == <<>>

\* A name that stands for the None of a defaulted refName argument; no
\* reference bears it.
NoName == "None"

\* The Sequence table, ID -> length; every sequence has its FASTA record.
SequenceLength == <<5, 2>>

\* The Reference table of the traversals: rows <<name, sequenceID>>.
StandardReferences == {<<"a", 1>>, <<"b", 2>>}

\* GraphJoin rows as the SELECT of getJoins projects them, in row order:
\* (seq1Name, seq1Pos, seq1Strand, seq2Name, seq2Pos, seq2Strand).
\* Positions are not checked against the references: the last row ends one
\* past the last base of b.
JoinPool ==
  << <<"a", 0, "F", "a", 2, "F">>,
     <<"a", 0, "F", "a", 3, "F">>,
     <<"a", 0, "F", "a", 4, "F">>,
     <<"a", 2, "F", "b", 0, "F">>,
     <<"a", 0, "F", "a", 0, "F">>,
     <<"a", 3, "R", "b", 1, "R">>,
     <<"a", 1, "R", "a", 3, "F">>,
     <<"a", 0, "F", "b", 2, "F">> >>

SeedNames == {"a", "b", "zz"}
SeedPositions == -1 .. MaxSeedPos
Radii == -1 .. MaxRadius

VARIABLES
  referenceRows, \* the Reference table of self._graphDb: rows <<name, sequenceID>>
  graphJoinRows, \* the GraphJoin table of self._graphDb, rows in row order
  answer,        \* the last answer of getRefNames, getReference or getJoins
  other,         \* the locals of a second, suspended call of getSubgraph
  page,          \* a call of Gff3DbFeatureSet.featureObjectGenerator
  termSet,       \* an OntologyTermSet: its two maps and its last add
  lookup,        \* a feature id on its way through compound id and getFeature
  graphJoins,   \* the rows the SELECT of getJoins yields without a WHERE
  refName,      \* arguments of the running getSubgraph call
  seedPosition,
  radius,
  segments,     \* accumulator: sequence of <<name, start, length>>
  joins,        \* accumulator: sequence of joins
  stack,        \* activations of _getSubgraph, innermost last
  pc,           \* "idle", "running", "returned", "raised"
  mode,         \* which extraction is running: "base", "reorder", "wider", "reference",
                \* or, of two calls at once, "same" (the baseline again) and "free"
  baseline,     \* result of the first extraction, None until it is kept
  visits        \* history: the visits that passed the check of line 166

\* What no step of one traversal touches.
annotations == <<page, termSet, lookup>>

aside == <<referenceRows, graphJoinRows, answer, other, annotations>>

vars == <<aside, graphJoins, refName, seedPosition, radius, segments, joins, stack,
          pc, mode, baseline, visits>>

\* ------------------------------------------------------------- helpers
Max(x, y) == IF x >= y THEN x ELSE y
Min(x, y) == IF x <= y THEN x ELSE y

Range(s) == {s[i] : i \in DOMAIN s}

\* All sub-tables of the pool with at most MaxJoins rows, row order kept.
RECURSIVE Pick(_, _)
Pick(rows, keep) ==
  IF rows = <<>> THEN <<>>
  ELSE (IF Len(JoinPool) - Len(rows) + 1 \in keep THEN <<Head(rows)>> ELSE <<>>)
       \o Pick(Tail(rows), keep)

Tables ==
  {Pick(JoinPool, keep) : keep \in {k \in SUBSET (1 .. Len(JoinPool)) : Cardinality(k) <= MaxJoins}}

\* The GraphJoin row behind a row of the pool: sequence IDs for the names of
\* StandardReferences, 'TRUE'/'FALSE' for the strands.
SequenceOf(name) == (CHOOSE r \in StandardReferences : r[1] = name)[2]
RawRow(j) ==
  <<SequenceOf(j[1]), j[2], IF j[3] = "F" THEN "TRUE" ELSE "FALSE",
    SequenceOf(j[4]), j[5], IF j[6] = "F" THEN "TRUE" ELSE "FALSE">>

\* Every order a list of rows can be returned in.
Orders(rows) ==
  LET n == Len(rows)
  IN {[i \in 1 .. n |-> rows[p[i]]] :
        p \in {f \in [1 .. n -> 1 .. n] : \A i, j \in 1 .. n : f[i] = f[j] => i = j}}

\* ------------------------------------------------------ reference catalog
\* Reference joined with Sequence (and FASTA), lines 39-51 and 75-82: name and
\* S.length of every reference whose sequence is stored.
RefLength ==
  LET rows == {r \in referenceRows : r[2] \in DOMAIN SequenceLength}
  IN [n \in {r[1] : r \in rows} |->
        SequenceLength[(CHOOSE r \in rows : r[1] = n)[2]]]

getRefNames == DOMAIN RefLength

\* The mutant: the WHERE of line 81 left out, fetchone takes some row.
getReferenceAnyRow(name) ==
  IF name \notin getRefNames THEN None
  ELSE LET r == CHOOSE r \in referenceRows : r[1] \in getRefNames
       IN [name |-> r[1], start |-> 0, length |-> RefLength[r[1]]]

\* lines 65-102: None for an unknown name (line 73), else the row of the
\* SELECT whose R.name is the name asked for
getReference(name) ==
  IF name \notin getRefNames THEN None
  ELSE LET r == CHOOSE r \in referenceRows : r[1] = name
       IN [name |-> r[1], start |-> 0, length |-> RefLength[name]]

\* ------------------------------------------------------------ join index
getJoinsOfReference(table, name, start, end) ==
  IF name \in getRefNames
  THEN SelectSeq(table, LAMBDA j : j[1] = name \/ j[4] = name)
  ELSE table

\* refName is a string; the name None of the default argument is a string that
\* is no reference name, so "refName is not None and refName in getRefNames()"
\* is membership.  end is <<>> for None and <<e>> for the int e.
getJoins(table, name, start, end) ==
  IF name \in getRefNames
  THEN IF end # NoEnd
       THEN SelectSeq(table, LAMBDA j :
              \/ (j[1] = name /\ j[2] >= start /\ j[2] <= end[1])
              \/ (j[4] = name /\ j[5] >= start /\ j[5] <= end[1]))
       ELSE SelectSeq(table, LAMBDA j :
              \/ (j[1] = name /\ j[2] >= start)
              \/ (j[4] = name /\ j[5] >= start))
  ELSE table

\* ------------------------------------------------------ _getSubgraph
Frame(name, pos, rad, joinTaken, cost) ==
  [refName |-> name, pos |-> pos, rad |-> rad, joinTaken |-> joinTaken,
   cost |-> cost, at |-> "entry", segStart |-> 0, segEnd |-> 0, todo |-> <<>>]

Top == stack[Len(stack)]
Pop == SubSeq(stack, 1, Len(stack) - 1)

ValidLeafAnyName(f) == ~(f.rad <= 0)
ValidLeafZeroRadius(f) == ~(f.rad < 0 \/ f.refName \notin getRefNames)

\* line 166
ValidLeaf(f) == ~(f.rad <= 0 \/ f.refName \notin getRefNames)

RecordJoinAlways(js, joinTaken) ==
  IF joinTaken # None THEN Append(js, joinTaken) ELSE js

\* lines 169-170
RecordJoin(js, joinTaken) ==
  IF joinTaken # None /\ joinTaken \notin Range(js) THEN Append(js, joinTaken) ELSE js

\* line 172 answers None and line 173 raises AttributeError on it
RefMissing(f) == getReference(f.refName) = None

SegStartUnclipped(f) == f.pos - f.rad

\* lines 172-176
SegStart(f) == Max(getReference(f.refName).start, f.pos - f.rad)
SegEndUnclipped(f) == f.pos + f.rad

SegEnd(f) ==
  Min(getReference(f.refName).start + getReference(f.refName).length, f.pos + f.rad)

ContainsStrictly(seg, name, segStart, segEnd) ==
  seg[1] = name /\ seg[2] < segStart /\ seg[2] + seg[3] > segEnd

\* line 188, for one accumulated segment
Contains(seg, name, segStart, segEnd) ==
  seg[1] = name /\ seg[2] <= segStart /\ seg[2] + seg[3] >= segEnd

\* lines 185-190: the loop returns at the first containing segment
Contained(segs, name, segStart, segEnd) ==
  \E i \in DOMAIN segs : Contains(segs[i], name, segStart, segEnd)

IntersectsStrictly(seg, name, segStart, segEnd) ==
  /\ seg[1] = name
  /\ \/ (segStart < seg[2] /\ seg[2] < segEnd)
     \/ (segStart < seg[2] + seg[3] /\ seg[2] + seg[3] < segEnd)

\* lines 191-192, for one accumulated segment
Intersects(seg, name, segStart, segEnd) ==
  /\ seg[1] = name
  /\ \/ (segStart <= seg[2] /\ seg[2] <= segEnd)
     \/ (segStart <= seg[2] + seg[3] /\ seg[2] + seg[3] <= segEnd)

MergeWindowOnly(segs, name, segStart, segEnd) ==
  Append(SelectSeq(segs, LAMBDA seg : ~Intersects(seg, name, segStart, segEnd)),
         <<name, segStart, segEnd - segStart>>)

MergeWithoutPrune(segs, name, segStart, segEnd) ==
  Append(segs, <<name, segStart, segEnd - segStart>>)

\* lines 182-200: prune the intersecting segments, append their union
Merge(segs, name, segStart, segEnd) ==
  LET hit == {i \in DOMAIN segs : Intersects(segs[i], name, segStart, segEnd)}
      unionStart == CHOOSE m \in {segStart} \cup {segs[i][2] : i \in hit} :
                          \A x \in {segStart} \cup {segs[i][2] : i \in hit} : m <= x
      unionEnd == CHOOSE m \in {segEnd} \cup {segs[i][2] + segs[i][3] : i \in hit} :
                          \A x \in {segEnd} \cup {segs[i][2] + segs[i][3] : i \in hit} : m >= x
  IN Append(SelectSeq(segs, LAMBDA seg : ~Intersects(seg, name, segStart, segEnd)),
            <<name, unionStart, unionEnd - unionStart>>)

\* The two tests of one loop iteration (lines 208 and 217), one per endpoint.
RECURSIVE Endpoints(_)
Endpoints(found) ==
  IF found = <<>> THEN <<>>
  ELSE << <<Head(found), "l">>, <<Head(found), "r">> >> \o Endpoints(Tail(found))

\* The endpoint of join j on side s, and the opposite one.
Near(j, s) == IF s = "l" THEN <<j[1], j[2], j[3]>> ELSE <<j[4], j[5], j[6]>>
Far(j, s) == IF s = "l" THEN <<j[4], j[5], j[6]>> ELSE <<j[1], j[2], j[3]>>

ReachableInWindow(f, e) ==
  e[1] = f.refName /\ f.segStart <= e[2] /\ e[2] <= f.segEnd

\* lines 208-209, 213, 217-218, 222
Reachable(f, e) ==
  /\ e[1] = f.refName
  /\ \/ (e[3] = "R" /\ f.pos <= e[2] /\ e[2] <= f.segEnd)
     \/ (e[3] = "F" /\ f.segStart <= e[2] /\ e[2] <= f.pos)

RemainingUncharged(f, e) ==
  IF e[3] = "R" THEN f.rad - e[2] + f.pos ELSE f.rad - f.pos + e[2]

\* lines 211, 215, 220, 224: the radius left after walking to e and crossing
Remaining(f, e) ==
  IF e[3] = "R" THEN f.rad - e[2] + f.pos - 1 ELSE f.rad - f.pos + e[2] - 1

\* Bases walked from the anchor of f to the endpoint e, plus one for the join.
Charge(f, e) == (IF e[2] >= f.pos THEN e[2] - f.pos ELSE f.pos - e[2]) + 1

AdvanceStuck(f) == f

\* line 203: the for loop moves on to the next endpoint test
Advance(f) == [f EXCEPT !.todo = Tail(f.todo)]

\* What a visit leaves in the history.
Visit(f) == <<f.refName, f.pos, f.rad, f.cost, f.joinTaken>>

\* The order foundJoins is iterated in (line 203).  The store answers in row
\* order; the "reorder" extraction takes the rows in any order.
FoundOrders(found) == IF mode = "reorder" THEN Orders(found) ELSE {found}

\* ------------------------------------------------------------ actions
Init ==
  /\ referenceRows = StandardReferences
  /\ graphJoins \in Tables
  /\ graphJoinRows = [i \in DOMAIN graphJoins |-> RawRow(graphJoins[i])]
  /\ answer = None
  /\ other = None
  /\ page = None
  /\ termSet = None
  /\ lookup = None
  /\ refName = "zz"
  /\ seedPosition = 0
  /\ radius = 0
  /\ segments = <<>>
  /\ joins = <<>>
  /\ stack = <<>>
  /\ pc = "idle"
  /\ mode = "base"
  /\ baseline = None
  /\ visits = {}

\* getSubgraph, lines 144-163 and 229: fresh accumulators, the first visit
GetSubgraph(name, pos, rad) ==
  /\ pc = "idle"
  /\ refName' = name
  /\ seedPosition' = pos
  /\ radius' = rad
  /\ segments' = <<>>
  /\ joins' = <<>>
  /\ stack' = <<Frame(name, pos, rad, None, 0)>>
  /\ pc' = "running"
  /\ visits' = {}
  /\ UNCHANGED <<aside, graphJoins, mode, baseline>>

\* lines 166-168: "not a valid leaf"
NotAValidLeaf ==
  /\ pc = "running" /\ stack # <<>> /\ Top.at = "entry"
  /\ ~ValidLeaf(Top)
  /\ stack' = Pop
  /\ UNCHANGED <<aside, graphJoins, refName, seedPosition, radius, segments, joins,
                 pc, mode, baseline, visits>>

\* lines 169-190: the join is recorded, then "nothing new here"
NothingNewHere ==
  /\ pc = "running" /\ stack # <<>> /\ Top.at = "entry"
  /\ ValidLeaf(Top) /\ ~RefMissing(Top)
  /\ mode # "reference"
  /\ Contained(segments, Top.refName, SegStart(Top), SegEnd(Top))
  /\ joins' = RecordJoin(joins, Top.joinTaken)
  /\ stack' = Pop
  /\ visits' = visits \cup {Visit(Top)}
  /\ UNCHANGED <<aside, graphJoins, refName, seedPosition, radius, segments,
                 pc, mode, baseline>>

\* lines 169-202: the join is recorded, the window is merged into the
\* segments, and the joins of the window are fetched.  A reference that
\* getReference does not know ends the whole call at line 173.
MergeAndFind ==
  /\ pc = "running" /\ stack # <<>> /\ Top.at = "entry"
  /\ ValidLeaf(Top)
  /\ joins' = RecordJoin(joins, Top.joinTaken)
  /\ visits' = visits \cup {Visit(Top)}
  /\ IF RefMissing(Top)
     THEN /\ pc' = "raised"
          /\ stack' = <<>>
          /\ UNCHANGED segments
     ELSE /\ ~Contained(segments, Top.refName, SegStart(Top), SegEnd(Top))
          /\ segments' = Merge(segments, Top.refName, SegStart(Top), SegEnd(Top))
          /\ \E found \in FoundOrders(getJoins(graphJoins, Top.refName,
                                                SegStart(Top), <<SegEnd(Top)>>)) :
               stack' = Append(Pop, [Top EXCEPT !.at = "loop",
                                                !.segStart = SegStart(Top),
                                                !.segEnd = SegEnd(Top),
                                                !.todo = Endpoints(found)])
          /\ UNCHANGED pc
  /\ UNCHANGED <<aside, graphJoins, refName, seedPosition, radius, mode, baseline>>

\* The traversal with the containment return of lines 188-190 taken out: a
\* covered window leaves the segments alone and its joins are explored.
ExploreCovered ==
  /\ pc = "running" /\ stack # <<>> /\ Top.at = "entry"
  /\ ValidLeaf(Top) /\ ~RefMissing(Top)
  /\ mode = "reference"
  /\ Contained(segments, Top.refName, SegStart(Top), SegEnd(Top))
  /\ joins' = RecordJoin(joins, Top.joinTaken)
  /\ stack' = Append(Pop, [Top EXCEPT !.at = "loop",
                                      !.segStart = SegStart(Top),
                                      !.segEnd = SegEnd(Top),
                                      !.todo = Endpoints(getJoins(graphJoins, Top.refName,
                                                   SegStart(Top), <<SegEnd(Top)>>))])
  /\ visits' = visits \cup {Visit(Top)}
  /\ UNCHANGED <<aside, graphJoins, refName, seedPosition, radius, segments,
                 pc, mode, baseline>>

\* lines 208-225: the endpoint is reachable, the recursive call is made
FollowJoin ==
  /\ pc = "running" /\ stack # <<>> /\ Top.at = "loop" /\ Top.todo # <<>>
  /\ LET j == Head(Top.todo)[1]
         near == Near(j, Head(Top.todo)[2])
         far == Far(j, Head(Top.todo)[2])
     IN /\ Reachable(Top, near)
        /\ stack' = Append(Append(Pop, Advance(Top)),
                           Frame(far[1], far[2], Remaining(Top, near), j,
                                 Top.cost + Charge(Top, near)))
  /\ UNCHANGED <<aside, graphJoins, refName, seedPosition, radius, segments, joins,
                 pc, mode, baseline, visits>>

\* lines 208-225: neither branch of the test for this endpoint is taken
SkipJoin ==
  /\ pc = "running" /\ stack # <<>> /\ Top.at = "loop" /\ Top.todo # <<>>
  /\ ~Reachable(Top, Near(Head(Top.todo)[1], Head(Top.todo)[2]))
  /\ stack' = Append(Pop, Advance(Top))
  /\ UNCHANGED <<aside, graphJoins, refName, seedPosition, radius, segments, joins,
                 pc, mode, baseline, visits>>

\* lines 226-227: the loop is over, the activation returns
EndVisit ==
  /\ pc = "running" /\ stack # <<>> /\ Top.at = "loop" /\ Top.todo = <<>>
  /\ stack' = Pop
  /\ UNCHANGED <<aside, graphJoins, refName, seedPosition, radius, segments, joins,
                 pc, mode, baseline, visits>>

\* line 230
Return ==
  /\ pc = "running" /\ stack = <<>>
  /\ pc' = "returned"
  /\ UNCHANGED <<aside, graphJoins, refName, seedPosition, radius, segments, joins,
                 stack, mode, baseline, visits>>

\* A further call of getSubgraph on the same handle from the same seed; the
\* result of the first call is kept for comparison.  "wider" asks for a
\* larger radius, the other two for the same one.
GetSubgraphAgain(m, rad) ==
  /\ pc = "returned" /\ mode = "base"
  /\ IF m = "wider" THEN rad > radius ELSE rad = radius
  /\ baseline' = [segments |-> segments, joins |-> joins, radius |-> radius]
  /\ mode' = m
  /\ radius' = rad
  /\ segments' = <<>>
  /\ joins' = <<>>
  /\ stack' = <<Frame(refName, seedPosition, rad, None, 0)>>
  /\ pc' = "running"
  /\ visits' = {}
  /\ UNCHANGED <<aside, graphJoins, refName, seedPosition>>

Next ==
  \/ \E name \in SeedNames, pos \in SeedPositions, rad \in Radii : GetSubgraph(name, pos, rad)
  \/ NotAValidLeaf
  \/ NothingNewHere
  \/ MergeAndFind
  \/ ExploreCovered
  \/ FollowJoin
  \/ SkipJoin
  \/ EndVisit
  \/ Return
  \/ \E m \in {"reorder", "wider", "reference"}, rad \in Radii : GetSubgraphAgain(m, rad)

Spec == Init /\ [][Next]_vars

\* One call of getSubgraph on its own.
CallNext ==
  \/ \E name \in SeedNames, pos \in SeedPositions, rad \in Radii : GetSubgraph(name, pos, rad)
  \/ NotAValidLeaf
  \/ NothingNewHere
  \/ MergeAndFind
  \/ FollowJoin
  \/ SkipJoin
  \/ EndVisit
  \/ Return

CallSpec == Init /\ [][CallNext]_vars

\* A started call runs on: the traversal is synchronous and nothing inside
\* getSubgraph waits for anything.
FairSpec == Init /\ [][CallNext]_vars /\ WF_vars(CallNext)

\* ---------------------------------------------------- two calls at once
\* After a baseline call, two calls of getSubgraph run on the same handle and
\* their visits interleave: the running call is in the variables of the
\* traversal, the suspended one in other.  The call tagged "same" repeats the
\* baseline call, the call tagged "free" has arguments of its own.
TwoSeeds == {<<"a", 0>>, <<"a", 3>>, <<"b", 1>>}
TwoRadii == 1 .. MaxTwoRadius

TwoInit == Init /\ Len(graphJoins) <= MaxTwoJoins

SharedAccumulators(o) == [segments |-> segments, joins |-> joins]

\* lines 161-163: segments and joins are created by the call and bound by the
\* closure of its _getSubgraph; a resumed call finds the lists it left
Accumulators(o) == [segments |-> o.segments, joins |-> o.joins]

\* The arguments and locals of the running call.
Locals ==
  [refName |-> refName, seedPosition |-> seedPosition, radius |-> radius,
   segments |-> segments, joins |-> joins, stack |-> stack, pc |-> pc, mode |-> mode]

\* lines 144-163 and 229, twice: the baseline call again and a second call
GetSubgraphTwice(name, pos, rad) ==
  /\ pc = "returned" /\ mode = "base"
  /\ baseline' = [segments |-> segments, joins |-> joins, radius |-> radius]
  /\ mode' = "same"
  /\ segments' = <<>>
  /\ joins' = <<>>
  /\ stack' = <<Frame(refName, seedPosition, radius, None, 0)>>
  /\ pc' = "running"
  /\ visits' = {}
  /\ other' = [refName |-> name, seedPosition |-> pos, radius |-> rad,
               segments |-> <<>>, joins |-> <<>>,
               stack |-> <<Frame(name, pos, rad, None, 0)>>,
               pc |-> "running", mode |-> "free"]
  /\ UNCHANGED <<annotations, referenceRows, graphJoinRows, answer, graphJoins, refName,
                 seedPosition, radius>>

\* The scheduler suspends the running call and resumes the other one.
Switch ==
  /\ other # None /\ other.pc = "running"
  /\ other' = Locals
  /\ refName' = other.refName
  /\ seedPosition' = other.seedPosition
  /\ radius' = other.radius
  /\ segments' = Accumulators(other).segments
  /\ joins' = Accumulators(other).joins
  /\ stack' = other.stack
  /\ pc' = other.pc
  /\ mode' = other.mode
  /\ UNCHANGED <<annotations, referenceRows, graphJoinRows, answer, graphJoins, baseline,
                 visits>>

TwoNext ==
  \/ \E seed \in TwoSeeds, rad \in TwoRadii : GetSubgraph(seed[1], seed[2], rad)
  \/ NotAValidLeaf
  \/ NothingNewHere
  \/ MergeAndFind
  \/ FollowJoin
  \/ SkipJoin
  \/ EndVisit
  \/ Return
  \/ \E seed \in TwoSeeds, rad \in TwoRadii : GetSubgraphTwice(seed[1], seed[2], rad)
  \/ Switch

TwoSpec == TwoInit /\ [][TwoNext]_vars

\* ------------------------------------------------------------- queries
\* Stores for the three query methods.  Reference names are unique; a
\* sequenceID may be shared by two references, and sequence 3 has no row in
\* Sequence (its references drop out of the SELECT of lines 39-44).
QueryNames == {"a", "b", "c"}
SequenceIDs == {1, 2, 3}

ReferenceTables ==
  {{<<n, f[n]>> : n \in DOMAIN f} :
     f \in UNION {[ns -> SequenceIDs] : ns \in SUBSET QueryNames}}

\* GraphJoin rows: (side1SequenceID, side1Position, side1StrandIsForward,
\* side2SequenceID, side2Position, side2StrandIsForward).
GraphJoinPool ==
  << <<1, 0, "TRUE", 1, 2, "TRUE">>,
     <<1, 1, "FALSE", 2, 0, "TRUE">>,
     <<2, 1, "TRUE", 2, 2, "FALSE">>,
     <<1, 2, "TRUE", 3, 0, "TRUE">>,
     <<2, 0, "FALSE", 1, 0, "TRUE">> >>

RECURSIVE PickRows(_, _, _)
PickRows(rows, i, keep) ==
  IF rows = <<>> THEN <<>>
  ELSE (IF i \in keep THEN <<Head(rows)>> ELSE <<>>) \o PickRows(Tail(rows), i + 1, keep)

GraphJoinTables ==
  {PickRows(GraphJoinPool, 1, keep) :
     keep \in {k \in SUBSET (1 .. Len(GraphJoinPool)) : Cardinality(k) <= MaxRows}}

RECURSIVE SetToSeq(_)
SetToSeq(S) ==
  IF S = {} THEN <<>>
  ELSE LET x == CHOOSE x \in S : TRUE IN <<x>> \o SetToSeq(S \ {x})

\* lines 119 and 121: CASE ... WHEN 'TRUE' THEN 'F' ELSE 'R' END
Strand(isForward) == IF isForward = "TRUE" THEN "F" ELSE "R"

\* lines 122-124: one GraphJoin row joined with Reference L and Reference R
\* on the sequence IDs of its two sides
JoinedRows(j, refs) ==
  SetToSeq({<<L[1], j[2], Strand(j[3]), R[1], j[5], Strand(j[6])>> :
              L \in {x \in refs : x[2] = j[1]}, R \in {x \in refs : x[2] = j[4]}})

\* lines 117-125: the SELECT of getJoins without a WHERE
RECURSIVE JoinsSQL(_, _)
JoinsSQL(rows, refs) ==
  IF rows = <<>> THEN <<>>
  ELSE JoinedRows(Head(rows), refs) \o JoinsSQL(Tail(rows), refs)

QueryArgNames == QueryNames \cup {"zz", NoName}
Starts == 0 .. MaxStart
Ends == {NoEnd} \cup {<<e>> : e \in Starts}

QueryInit ==
  /\ referenceRows \in ReferenceTables
  /\ graphJoinRows \in GraphJoinTables
  /\ graphJoins = JoinsSQL(graphJoinRows, referenceRows)
  /\ answer = None
  /\ other = None
  /\ page = None
  /\ termSet = None
  /\ lookup = None
  /\ refName = "zz"
  /\ seedPosition = 0
  /\ radius = 0
  /\ segments = <<>>
  /\ joins = <<>>
  /\ stack = <<>>
  /\ pc = "idle"
  /\ mode = "base"
  /\ baseline = None
  /\ visits = {}

traversal == <<graphJoins, refName, seedPosition, radius, segments, joins, stack,
               pc, mode, baseline, visits>>

\* lines 59-63
GetRefNamesCall ==
  /\ answer' = [op |-> "getRefNames", name |-> NoName, start |-> 0, end |-> NoEnd,
                raised |-> FALSE, result |-> getRefNames]
  /\ UNCHANGED <<referenceRows, graphJoinRows, other, annotations, traversal>>

\* lines 65-102
GetReferenceCall(name) ==
  /\ answer' = [op |-> "getReference", name |-> name, start |-> 0, end |-> NoEnd,
                raised |-> FALSE, result |-> getReference(name)]
  /\ UNCHANGED <<referenceRows, graphJoinRows, other, annotations, traversal>>

\* lines 104-142; no path of the method raises
GetJoinsCall(name, start, end) ==
  /\ answer' = [op |-> "getJoins", name |-> name, start |-> start, end |-> end,
                raised |-> FALSE, result |-> getJoins(graphJoins, name, start, end)]
  /\ UNCHANGED <<referenceRows, graphJoinRows, other, annotations, traversal>>

QueryNext ==
  \/ GetRefNamesCall
  \/ \E name \in QueryArgNames : GetReferenceCall(name)
  \/ \E name \in QueryArgNames, start \in Starts, end \in Ends :
       GetJoinsCall(name, start, end)

QuerySpec == QueryInit /\ [][QueryNext]_vars

\* ------------------------------------------------ sequence annotations
\* The side graph at rest, for the specifications of the other modules.
NoSideGraph ==
  /\ referenceRows = StandardReferences
  /\ graphJoinRows = <<>>
  /\ graphJoins = <<>>
  /\ answer = None
  /\ other = None
  /\ refName = "zz"
  /\ seedPosition = 0
  /\ radius = 0
  /\ segments = <<>>
  /\ joins = <<>>
  /\ stack = <<>>
  /\ pc = "idle"
  /\ mode = "base"
  /\ baseline = None
  /\ visits = {}

sideGraph == <<referenceRows, graphJoinRows, answer, other, traversal>>

\* pageToken and nextPageToken: <<>> for None, <<t>> for the int t.
NoToken == <<>>
PageTokens == {NoToken} \cup {<<t>> : t \in 0 .. MaxFeatures}
PageSizes == {NoToken} \cup {<<n>> : n \in 0 .. MaxPageSize}

\* countFeaturesSearchInDb, lines 72-94: the number of rows of FEATURE that
\* match the request.
countFeaturesSearchInDb == page.matching

\* searchFeaturesInDb, lines 96-124: the same WHERE as the count, and the
\* limits of lines 100-101 and 122: pageToken is the first record to return
\* (None: the first row), pageSize the number of records (None: all).  The
\* matching rows are numbered from 0 in the order of the SELECT.
searchFeaturesInDb(pageToken, pageSize) ==
  LET first == IF pageToken = NoToken THEN 0 ELSE pageToken[1]
      last == IF pageSize = NoToken THEN page.matching - 1
              ELSE Min(page.matching, first + pageSize[1]) - 1
  IN [k \in 1 .. Max(0, last - first + 1) |-> first + k - 1]

NextPageTokenPastEnd(token, featuresCount) ==
  IF token[1] < featuresCount THEN <<token[1] + 1>> ELSE NoToken

\* lines 293-296
NextPageToken(token, featuresCount) ==
  IF token[1] < featuresCount - 1 THEN <<token[1] + 1>> ELSE NoToken

PageInit ==
  /\ NoSideGraph
  /\ page \in [matching : 0 .. MaxFeatures, pc : {"idle"}, pageToken : {NoToken},
               pageSize : {NoToken}, featuresCount : {0}, featuresReturned : {<<>>},
               nextPageToken : {NoToken}, yielded : {<<>>}]
  /\ termSet = None
  /\ lookup = None

\* lines 252-290: the count, the search and the first value of nextPageToken
FeatureObjectGenerator(pageToken, pageSize) ==
  /\ page.pc = "idle"
  /\ page' = [page EXCEPT !.pc = "iterating",
                          !.pageToken = pageToken,
                          !.pageSize = pageSize,
                          !.featuresCount = countFeaturesSearchInDb,
                          !.featuresReturned = searchFeaturesInDb(pageToken, pageSize),
                          !.nextPageToken =
                             IF pageToken # NoToken THEN pageToken ELSE <<0>>]
  /\ UNCHANGED <<sideGraph, termSet, lookup>>

\* lines 291-297: one round of the loop.  After a None token the comparison
\* of line 293 (Python 3) or the increment of line 294 (Python 2, where None
\* is less than every int) raises TypeError.
YieldFeature ==
  /\ page.pc = "iterating" /\ page.featuresReturned # <<>>
  /\ IF page.nextPageToken = NoToken
     THEN page' = [page EXCEPT !.pc = "raised"]
     ELSE LET token == NextPageToken(page.nextPageToken, page.featuresCount)
          IN page' = [page EXCEPT
                        !.nextPageToken = token,
                        !.yielded = Append(@, <<Head(page.featuresReturned), token>>),
                        !.featuresReturned = Tail(@)]
  /\ UNCHANGED <<sideGraph, termSet, lookup>>

\* line 291: the rows are used up, the generator ends
EndOfFeatures ==
  /\ page.pc = "iterating" /\ page.featuresReturned = <<>>
  /\ page' = [page EXCEPT !.pc = "done"]
  /\ UNCHANGED <<sideGraph, termSet, lookup>>

PageNext ==
  \/ \E pageToken \in PageTokens, pageSize \in PageSizes :
       FeatureObjectGenerator(pageToken, pageSize)
  \/ YieldFeature
  \/ EndOfFeatures

PageSpec == PageInit /\ [][PageNext]_vars

\* ------------------------------------------------------------ ontologies
\* The name None of an ontology term is a string that no term is named by.
NoTermName == "None"
TermIds == {"SO:1", "SO:2", "SO:3"}
TermNames == {"gene", "exon", NoTermName}

\* OntologyTerm, lines 113-116
OntologyTerm(id, name) == [id |-> id, name |-> name]

\* OntologyTermSet.__init__, lines 83-86: two empty maps; added counts the
\* calls of add, for the bound of the model
TermInit ==
  /\ NoSideGraph
  /\ page = None
  /\ lookup = None
  /\ termSet = [ontologyTermIdMap |-> <<>>, ontologyTermNameMap |-> <<>>,
                added |-> 0, last |-> None]

\* The maps are functions from the keys put into them.
Put(map, key, value) ==
  [k \in DOMAIN map \cup {key} |-> IF k = key THEN value ELSE map[k]]

\* OntologyTermSet.add, lines 88-100.  last keeps the term, the id map as it
\* was before the call, and whether ValueError was raised.
Add(ontologyTerm) ==
  /\ termSet.added < MaxTerms
  /\ LET before == termSet.ontologyTermIdMap
         Call(raised) == [term |-> ontologyTerm, before |-> before, raised |-> raised]
     IN IF ontologyTerm.id \in DOMAIN termSet.ontologyTermIdMap
        THEN termSet' = [termSet EXCEPT
                           !.added = @ + 1,
                           !.last = Call(TRUE)]
        ELSE IF /\ ontologyTerm.name # NoTermName
                /\ ontologyTerm.name \in DOMAIN termSet.ontologyTermNameMap
             THEN termSet' = [termSet EXCEPT
                                !.ontologyTermIdMap = Put(@, ontologyTerm.id, ontologyTerm),
                                !.added = @ + 1,
                                !.last = Call(TRUE)]
             ELSE termSet' = [termSet EXCEPT
                                !.ontologyTermIdMap = Put(@, ontologyTerm.id, ontologyTerm),
                                !.added = @ + 1,
                                !.last = Call(FALSE)]
  /\ UNCHANGED <<sideGraph, page, lookup>>

\* OntologyTermSet.create, lines 102-106
Create(id, name) == Add(OntologyTerm(id, name))

TermNext ==
  \/ \E id \in TermIds, name \in TermNames : Add(OntologyTerm(id, name))
  \/ \E id \in TermIds, name \in TermNames : Create(id, name)

TermSpec == TermInit /\ [][TermNext]_vars

\* ----------------------------------------------------------- feature ids
\* Feature ids are strings, modelled as sequences of characters; the
\* alphabet has the colon, its replacement and one other character.
Chars == {":", ";", "x"}
FeatureIds == UNION {[1 .. n -> Chars] : n \in 1 .. MaxIdLen}

\* lines 141-147: featureId.replace(':', ';')
decolonize(featureId) ==
  [i \in DOMAIN featureId |-> IF featureId[i] = ":" THEN ";" ELSE featureId[i]]

\* lines 150-156: mangled_featureId.replace(';', ':')
recolonize(mangled_featureId) ==
  [i \in DOMAIN mangled_featureId |->
     IF mangled_featureId[i] = ";" THEN ":" ELSE mangled_featureId[i]]

\* getFeatureById, lines 126-134: the row of FEATURE with that id, else None
getFeatureById(featureId) ==
  IF featureId \in lookup.table THEN featureId ELSE None

\* A FEATURE table with the ids of one or two features, one of them asked for.
IdInit ==
  /\ NoSideGraph
  /\ page = None
  /\ termSet = None
  /\ \E featureId \in FeatureIds, another \in FeatureIds :
       lookup = [table |-> {featureId, another}, featureId |-> featureId,
                 compoundId |-> None, requested |-> None, found |-> None,
                 pc |-> "stored"]

\* getCompoundIdForFeatureId, lines 187-195: the feature id part of the
\* compound id
GetCompoundIdForFeatureId ==
  /\ lookup.pc = "stored"
  /\ lookup' = [lookup EXCEPT !.compoundId = decolonize(lookup.featureId),
                              !.pc = "linked"]
  /\ UNCHANGED <<sideGraph, page, termSet>>

\* getFeature, lines 219-228
GetFeature ==
  /\ lookup.pc = "linked"
  /\ lookup' = [lookup EXCEPT !.requested = recolonize(lookup.compoundId),
                              !.found = getFeatureById(recolonize(lookup.compoundId)),
                              !.pc = "fetched"]
  /\ UNCHANGED <<sideGraph, page, termSet>>

IdNext ==
  \/ GetCompoundIdForFeatureId
  \/ GetFeature

IdSpec == IdInit /\ [][IdNext]_vars

\* ------------------------------------------------------------ properties
\* The positions of the references that a list of segments covers.
Cover(segs) ==
  UNION {{<<segs[i][1], q>> : q \in segs[i][2] .. (segs[i][2] + segs[i][3] - 1)} :
           i \in DOMAIN segs}

Abs(x) == IF x >= 0 THEN x ELSE -x

\* C1: at every point of a traversal, and in the result, two distinct
\* accumulated segments on the same reference neither overlap nor touch:
\* s1 + l1 < s2 or s2 + l2 < s1.
C1_NoOverlapOrTouch ==
  \A i, k \in DOMAIN segments :
    (i # k /\ segments[i][1] = segments[k][1]) =>
      \/ segments[i][2] + segments[i][3] < segments[k][2]
      \/ segments[k][2] + segments[k][3] < segments[i][2]

\* Two separate segments lie on one reference after a merge has pruned some.
C1_Witness ==
  /\ mode # "reference"
  /\ \E i, k \in DOMAIN segments : i # k /\ segments[i][1] = segments[k][1]

\* C2: for a fixed graph, seed and radius the returned set of segments is the
\* same whatever order the joins are iterated in at each visit.
C2_OrderIndependent ==
  (pc = "returned" /\ mode = "reorder") =>
    Range(segments) = Range(baseline.segments)

\* C3: with a larger radius from the same seed every segment of the smaller
\* radius lies inside a returned segment on the same reference, and every join
\* of the smaller radius is returned.
C3_RadiusMonotone ==
  (pc = "returned" /\ mode = "wider") =>
    /\ \A s \in Range(baseline.segments) :
         \E t \in Range(segments) :
           t[1] = s[1] /\ t[2] <= s[2] /\ s[2] + s[3] <= t[2] + t[3]
    /\ Range(baseline.joins) \subseteq Range(joins)

\* C4: the covered positions and the joins returned are those of the same
\* traversal with the containment return disabled.
C4_ShortCircuitLosesNothing ==
  (pc = "returned" /\ mode = "reference") =>
    /\ Cover(baseline.segments) = Cover(segments)
    /\ Range(baseline.joins) = Range(joins)

\* C5: every covered position q lies in the window of a visit (ref, anchor,
\* rem) with |q - anchor| <= rem, where rem is the radius less the bases
\* walked and joins crossed on the way to that anchor.
C5_RadiusBudget ==
  /\ \A v \in visits : v[3] = radius - v[4]
  /\ \A c \in Cover(segments) :
       \E v \in visits : v[1] = c[1] /\ Abs(c[2] - v[2]) <= v[3]

\* A returned result holds positions reached only after crossing a join.
C5_Witness ==
  /\ pc = "returned" /\ mode # "reference"
  /\ \E c \in Cover(segments) :
       \A v \in visits : (v[1] = c[1] /\ Abs(c[2] - v[2]) <= v[3]) => v[4] > 0

\* C6: every accumulated segment lies inside its reference:
\* ref.start <= start and start + length <= ref.start + ref.length.
C6_BoundaryClipping ==
  \A i \in DOMAIN segments :
    LET ref == getReference(segments[i][1])
    IN /\ ref.start <= segments[i][2]
       /\ segments[i][2] + segments[i][3] <= ref.start + ref.length

\* A returned segment was cut at both ends of its reference.
C6_Witness ==
  /\ pc = "returned" /\ mode = "base"
  /\ \E i \in DOMAIN segments :
       /\ segments[i][1] = refName
       /\ seedPosition - radius < 0
       /\ seedPosition + radius > RefLength[refName]
       /\ segments[i][2] = 0 /\ segments[i][3] = RefLength[refName]

\* C7: every call of getSubgraph that is started returns (or raises).
C7_Terminates == (pc = "running") ~> (pc \in {"returned", "raised"})

\* A call has returned after going round a cycle of joins: it entered the
\* seed reference again through a join.
C7_Witness ==
  /\ pc = "returned" /\ mode = "base"
  /\ \E v \in visits :
       v[1] = refName /\ v[4] >= 2 /\ v[5] # None /\ v[5][1] # v[5][4]

\* C8: a seed reference that is not in the catalog gives an empty segment
\* list and an empty join list, and no error.
C8_DeadEndSeed ==
  (pc # "running" /\ pc # "idle" /\ refName \notin getRefNames) =>
    pc = "returned" /\ segments = <<>> /\ joins = <<>>

\* A call seeded on an unknown reference, with a positive radius and joins in
\* the store, has returned.
C8_Witness ==
  pc = "returned" /\ refName \notin getRefNames /\ radius > 0 /\ graphJoins # <<>>

\* C9: the join list never holds the same join twice.
C9_JoinsDistinct ==
  \A i, k \in DOMAIN joins : i # k => joins[i] # joins[k]

\* A returned call arrived through the same join at two different visits.
C9_Witness ==
  /\ pc = "returned" /\ mode = "base"
  /\ \E v, w \in visits : v # w /\ v[5] # None /\ v[5] = w[5]

\* C10: every returned segment has a non-negative length.
C10_NonNegativeLength ==
  pc = "returned" => \A i \in DOMAIN segments : segments[i][3] >= 0

\* C11: a call of getSubgraph with a negative radius ends in an error, not in
\* an (empty) result.
C11_NegativeRadiusRejected ==
  (pc \in {"returned", "raised"} /\ radius < 0) => pc = "raised"

\* C12: on a graph without joins, a seed inside its reference and a radius of
\* at least the reference's length give exactly the one segment
\* (name, ref.start, ref.length) of getReference(name), and no joins.
C12_FullReference ==
  (/\ pc = "returned"
   /\ graphJoins = <<>>
   /\ refName \in getRefNames
   /\ getReference(refName).start <= seedPosition
   /\ seedPosition < getReference(refName).start + getReference(refName).length
   /\ radius >= getReference(refName).length)
  => /\ segments = << <<refName, getReference(refName).start,
                        getReference(refName).length>> >>
     /\ joins = <<>>

\* A call on a graph without joins has returned a whole reference from a seed
\* that is not its first base.
C12_Witness ==
  /\ pc = "returned" /\ mode = "base"
  /\ graphJoins = <<>>
  /\ refName \in getRefNames
  /\ 0 < seedPosition
  /\ seedPosition < getReference(refName).length
  /\ radius >= getReference(refName).length
  /\ Len(segments) = 1

\* C20: a visit with remaining radius <= 0, or on a reference that is not in
\* the catalog, changes neither accumulator (the join taken is not recorded)
\* and starts no visit: its activation just returns.
C20_DeadEndVisit ==
  [][(/\ pc = "running" /\ stack # <<>> /\ Top.at = "entry"
      /\ (Top.rad <= 0 \/ Top.refName \notin getRefNames))
     => (segments' = segments /\ joins' = joins /\ stack' = Pop)]_vars

\* A visit that arrived through a join not yet recorded is a dead end.
C20_Witness ==
  /\ pc = "running" /\ stack # <<>> /\ Top.at = "entry"
  /\ (Top.rad <= 0 \/ Top.refName \notin getRefNames)
  /\ Top.joinTaken # None /\ Top.joinTaken \notin Range(joins)
  /\ segments # <<>>

\* C13: getJoins(refName) with no interval answers, for every refName, loaded
\* or not, exactly the joins with at least one endpoint on that reference.
C13_JoinsOfReference ==
  (/\ answer # None /\ answer.op = "getJoins"
   /\ answer.name # NoName /\ answer.start = 0 /\ answer.end = NoEnd)
  => Range(answer.result) =
       {j \in Range(graphJoins) : j[1] = answer.name \/ j[4] = answer.name}

\* C14: getJoins(refName, start, end) answers exactly the joins with an
\* endpoint on refName whose position on that endpoint is within
\* [start, end], both inclusive; with end omitted, at or after start.
C14_JoinsInInterval ==
  (answer # None /\ answer.op = "getJoins" /\ answer.name # NoName)
  => Range(answer.result) =
       {j \in Range(graphJoins) :
          \/ /\ j[1] = answer.name /\ answer.start <= j[2]
             /\ (answer.end = NoEnd \/ j[2] <= answer.end[1])
          \/ /\ j[4] = answer.name /\ answer.start <= j[5]
             /\ (answer.end = NoEnd \/ j[5] <= answer.end[1])}

\* C15: getJoins() answers every join exactly once: as many rows as the
\* GraphJoin table holds, whatever the store holds.
C15_EveryJoinOnce ==
  (/\ answer # None /\ answer.op = "getJoins"
   /\ answer.name = NoName /\ answer.start = 0 /\ answer.end = NoEnd)
  => Len(answer.result) = Len(graphJoinRows)

\* C16: getJoins with an end and no refName raises an error.
C16_IntervalWithoutName ==
  (/\ answer # None /\ answer.op = "getJoins"
   /\ answer.name = NoName /\ answer.end # NoEnd)
  => answer.raised

\* C17: getReference(name) raises nothing; it answers None for a name that is
\* no known reference and a record of that very name for a known one.
C17_ReferenceOrNone ==
  (answer # None /\ answer.op = "getReference")
  => /\ ~answer.raised
     /\ IF answer.name \in getRefNames
        THEN answer.result # None /\ answer.result.name = answer.name
        ELSE answer.result = None

\* getReference has answered for one of several known references.
C17_Witness ==
  /\ answer # None /\ answer.op = "getReference"
  /\ answer.name \in getRefNames
  /\ Cardinality(getRefNames) >= 2
  /\ \E r \in referenceRows : r[1] \notin getRefNames

\* C18: getRefNames answers exactly the names of the rows of the Reference
\* table.
C18_AllReferenceNames ==
  (answer # None /\ answer.op = "getRefNames")
  => answer.result = {r[1] : r \in referenceRows}

WindowStart(f) ==
  LET ref == getReference(f.refName) IN Max(ref.start, f.pos - f.rad)
WindowEnd(f) ==
  LET ref == getReference(f.refName) IN Min(ref.start + ref.length, f.pos + f.rad)

\* A visit that has passed the test of line 166 is about to look at its window.
AtWindow ==
  /\ pc = "running" /\ stack # <<>> /\ Top.at = "entry"
  /\ Top.rad > 0 /\ Top.refName \in getRefNames

\* Some accumulated segment on the visit's reference contains its window.
WindowCovered ==
  \E i \in DOMAIN segments :
    /\ segments[i][1] = Top.refName
    /\ segments[i][2] <= WindowStart(Top)
    /\ segments[i][2] + segments[i][3] >= WindowEnd(Top)

\* C21: a visit whose window lies inside an accumulated segment of its
\* reference leaves the segments as they are and starts no visit, and the
\* join it arrived through is in the joins when it ends.
C21_CoveredWindow ==
  [][(AtWindow /\ WindowCovered)
     => /\ segments' = segments
        /\ stack' = Pop
        /\ (Top.joinTaken # None => Top.joinTaken \in Range(joins'))]_vars

\* A visit with a covered window arrived through a join that is not yet
\* recorded.
C21_Witness ==
  /\ AtWindow /\ WindowCovered
  /\ Top.joinTaken # None /\ Top.joinTaken \notin Range(joins)

\* An accumulated segment intersects or touches the window [lo, hi).
Touches(seg, name, lo, hi) ==
  seg[1] = name /\ seg[2] <= hi /\ lo <= seg[2] + seg[3]

\* C22: a visit that is not short-circuited replaces exactly the segments of
\* its reference that intersect or touch its window by one segment, the union
\* of the window and those segments; all other segments stay.
C22_MergeStep ==
  [][(AtWindow /\ ~WindowCovered)
     => LET lo == WindowStart(Top)
            hi == WindowEnd(Top)
            hit == {i \in DOMAIN segments : Touches(segments[i], Top.refName, lo, hi)}
            starts == {lo} \cup {segments[i][2] : i \in hit}
            ends == {hi} \cup {segments[i][2] + segments[i][3] : i \in hit}
            unionStart == CHOOSE x \in starts : \A y \in starts : x <= y
            unionEnd == CHOOSE x \in ends : \A y \in ends : x >= y
        IN segments' =
             Append(SelectSeq(segments, LAMBDA seg : ~Touches(seg, Top.refName, lo, hi)),
                    <<Top.refName, unionStart, unionEnd - unionStart>>)]_vars

\* A merge is about to replace two accumulated segments by their union with
\* the window.
C22_Witness ==
  /\ AtWindow /\ ~WindowCovered
  /\ Cardinality({i \in DOMAIN segments :
        Touches(segments[i], Top.refName, WindowStart(Top), WindowEnd(Top))}) >= 2

\* C23: the window of a visit (ref, anchor, rem) is [max(refStart, anchor -
\* rem), min(refStart + refLength, anchor + rem)), and the joins the visit
\* explores are exactly the joins getJoins returns for that window, not for
\* the merged segment.
C23_WindowAndJoins ==
  [][(AtWindow /\ ~WindowCovered)
     => LET new == stack'[Len(stack)]
        IN /\ Len(stack') = Len(stack)
           /\ new.at = "loop"
           /\ new.segStart = WindowStart(Top)
           /\ new.segEnd = WindowEnd(Top)
           /\ {new.todo[k][1] : k \in DOMAIN new.todo} =
                {j \in Range(graphJoins) :
                   \/ /\ j[1] = Top.refName
                      /\ WindowStart(Top) <= j[2] /\ j[2] <= WindowEnd(Top)
                   \/ /\ j[4] = Top.refName
                      /\ WindowStart(Top) <= j[5] /\ j[5] <= WindowEnd(Top)}]_vars

\* A visit explores the joins of a window that is smaller than the segment
\* it was merged into, and that segment bears a join the window does not.
C23_Witness ==
  /\ pc = "running" /\ stack # <<>> /\ Top.at = "loop"
  /\ \E i \in DOMAIN segments :
       /\ segments[i][1] = Top.refName
       /\ segments[i][2] <= Top.segStart
       /\ segments[i][2] + segments[i][3] >= Top.segEnd
       /\ \E j \in Range(graphJoins) :
            /\ j \notin {Top.todo[k][1] : k \in DOMAIN Top.todo}
            /\ \/ /\ j[1] = Top.refName /\ segments[i][2] <= j[2]
                  /\ j[2] <= segments[i][2] + segments[i][3]
                  /\ ~(Top.segStart <= j[2] /\ j[2] <= Top.segEnd)
               \/ /\ j[4] = Top.refName /\ segments[i][2] <= j[5]
                  /\ j[5] <= segments[i][2] + segments[i][3]
                  /\ ~(Top.segStart <= j[5] /\ j[5] <= Top.segEnd)

\* The endpoint (ref, p, strand) lies on the reference of the visit f, on the
\* side of the anchor its strand leads away from.
Crosses(f, e) ==
  /\ e[1] = f.refName
  /\ \/ (e[3] = "R" /\ f.pos <= e[2] /\ e[2] <= f.segEnd)
     \/ (e[3] = "F" /\ f.segStart <= e[2] /\ e[2] <= f.pos)

\* C24: a visit tests every found join once per endpoint; the test of an
\* endpoint (ref, p, strand) on the current reference starts a child visit at
\* the other endpoint iff (strand R and anchor <= p <= segEnd) or (strand F
\* and segStart <= p <= anchor), with radius rem - |p - anchor| - 1 and the
\* join as the join taken; no other step starts a visit.
C24_SuccessorRule ==
  [][/\ (AtWindow /\ ~WindowCovered)
          => LET todo == stack'[Len(stack)].todo
             IN \A k \in DOMAIN todo :
                  /\ todo[k][2] = IF k % 2 = 1 THEN "l" ELSE "r"
                  /\ k % 2 = 0 => todo[k][1] = todo[k - 1][1]
                  /\ k % 2 = 1 => k + 1 \in DOMAIN todo
     /\ (pc = "running" /\ stack # <<>> /\ Top.at = "loop" /\ Top.todo # <<>>)
          => LET j == Head(Top.todo)[1]
                 left == <<j[1], j[2], j[3]>>
                 right == <<j[4], j[5], j[6]>>
                 near == IF Head(Top.todo)[2] = "l" THEN left ELSE right
                 far == IF Head(Top.todo)[2] = "l" THEN right ELSE left
                 child == stack'[Len(stack')]
             IN /\ stack'[Len(stack)].todo = Tail(Top.todo)
                /\ IF Crosses(Top, near)
                   THEN /\ Len(stack') = Len(stack) + 1
                        /\ child.at = "entry"
                        /\ child.refName = far[1]
                        /\ child.pos = far[2]
                        /\ child.rad = Top.rad - Abs(near[2] - Top.pos) - 1
                        /\ child.joinTaken = j
                   ELSE Len(stack') = Len(stack)
     /\ (stack # <<>> /\ Len(stack') > Len(stack))
          => (Top.at = "loop" /\ Top.todo # <<>>)]_vars

\* The second child visit of a self-join: both of its endpoints cross, both
\* tests of the parent visit are done, and the child of the second is running.
C24_Witness ==
  /\ pc = "running" /\ Len(stack) >= 2 /\ Top.at = "entry"
  /\ Top.joinTaken # None
  /\ LET j == Top.joinTaken
         parent == stack[Len(stack) - 1]
     IN /\ j[1] = j[4]
        /\ Crosses(parent, <<j[1], j[2], j[3]>>)
        /\ Crosses(parent, <<j[4], j[5], j[6]>>)
        /\ \A k \in DOMAIN parent.todo : parent.todo[k][1] # j
        /\ j \in Range(joins)

\* C25, as stated: every visit is started with a smaller radius than its
\* parent's, and the number of joins crossed on a path, the recursion depth,
\* is less than the radius of the call.
C25_DepthBelowRadius ==
  pc = "running"
  => /\ \A i \in DOMAIN stack : i >= 2 => stack[i].rad < stack[i - 1].rad
     /\ Len(stack) >= 2 => Len(stack) - 1 < radius

\* C25, amended: every visit is started with a smaller radius than its
\* parent's; a visit that passes the test of line 166 has crossed fewer joins
\* than the radius of the call, and a visit that fails it at most as many.
C25_DepthWithinRadius ==
  pc = "running"
  => \A i \in DOMAIN stack :
       /\ i >= 2 => stack[i].rad < stack[i - 1].rad
       /\ i >= 2 => i - 1 <= radius
       /\ stack[i].rad > 0 => i - 1 < radius

\* A visit two joins away from the seed passes the test of line 166.
C25_Witness ==
  /\ pc = "running" /\ Len(stack) >= 3
  /\ Top.at = "loop"
  /\ Top.rad > 0

\* The position p of the reference name lies inside a segment of segs.
Inside(segs, name, p) ==
  \E i \in DOMAIN segs :
    segs[i][1] = name /\ segs[i][2] <= p /\ p < segs[i][2] + segs[i][3]

\* The position p lies inside the reference name.
InReference(name, p) ==
  /\ name \in getRefNames
  /\ getReference(name).start <= p
  /\ p < getReference(name).start + getReference(name).length

\* C26: when every join endpoint and the seed lie inside their references,
\* both endpoints of every returned join lie inside a returned segment of the
\* endpoint's reference.
C26_JoinsAttached ==
  (/\ pc = "returned"
   /\ InReference(refName, seedPosition)
   /\ \A j \in Range(graphJoins) : InReference(j[1], j[2]) /\ InReference(j[4], j[5]))
  => \A j \in Range(joins) :
       Inside(segments, j[1], j[2]) /\ Inside(segments, j[4], j[5])

\* A call from a seed inside its reference has returned joins that lead to a
\* second reference and on.
C26_Witness ==
  /\ pc = "returned"
  /\ InReference(refName, seedPosition)
  /\ Len(joins) >= 2
  /\ \E j \in Range(joins) : j[1] # j[4]
  /\ Len(segments) >= 2

\* C27: while a call runs its accumulators only grow: every position a
\* segment covers stays covered (so it is covered in the result), and a
\* recorded join stays recorded.
C27_AccumulatorsGrow ==
  [][pc = "running"
     => /\ Cover(segments) \subseteq Cover(segments')
        /\ Range(joins) \subseteq Range(joins')]_vars

\* With joins recorded, a merge is about to prune a segment that reaches
\* beyond the window of the visit.
C27_Witness ==
  /\ AtWindow /\ ~WindowCovered
  /\ joins # <<>>
  /\ \E i \in DOMAIN segments :
       /\ Touches(segments[i], Top.refName, WindowStart(Top), WindowEnd(Top))
       /\ \/ segments[i][2] < WindowStart(Top)
          \/ segments[i][2] + segments[i][3] > WindowEnd(Top)

\* C28: over N matching features, from row p on (None: row 0), the feature of
\* row i is yielded with the token i + 1 when i < N - 1 and with None when
\* i = N - 1; no yielded token is N or more, and no feature follows a None
\* token.
C28_PageTokens ==
  page # None
  => LET N == page.matching
         p == IF page.pageToken = NoToken THEN 0 ELSE page.pageToken[1]
     IN /\ page.pc # "raised"
        /\ \A k \in DOMAIN page.yielded :
             LET i == page.yielded[k][1]
                 token == page.yielded[k][2]
             IN /\ i = p + k - 1
                /\ i <= N - 1
                /\ i < N - 1 => token = <<i + 1>>
                /\ i = N - 1 => token = NoToken
                /\ token # NoToken => token[1] < N
                /\ token = NoToken => k = Len(page.yielded)

\* A page that starts after the first row has ended with the last feature
\* and a None token; an earlier feature of it got a number.
C28_Witness ==
  /\ page # None /\ page.pc = "done"
  /\ page.pageToken # NoToken /\ page.pageToken[1] > 0
  /\ Len(page.yielded) >= 2
  /\ page.yielded[Len(page.yielded)][2] = NoToken
  /\ page.yielded[1][2] # NoToken

\* C29: after any sequence of add and create calls, an add of a term whose id
\* has been added before, or whose name is not None and has been added
\* before, raises ValueError and leaves the term set as it was.
C29_DuplicateTermRejected ==
  (termSet # None /\ termSet.last # None)
  => LET term == termSet.last.term
         before == termSet.last.before
     IN (\/ term.id \in DOMAIN before
         \/ /\ term.name # NoTermName
            /\ \E id \in DOMAIN before : before[id].name = term.name)
        => /\ termSet.last.raised
           /\ termSet.ontologyTermIdMap = before

\* C30: for every feature id, recolonize(decolonize(id)) is the id, so that
\* getFeature on the compound id of a feature finds that feature.
C30_FeatureIdRoundTrip ==
  (lookup # None /\ lookup.pc = "fetched")
  => /\ lookup.requested = lookup.featureId
     /\ lookup.found = lookup.featureId

====
